---- MODULE Spec2Model ----
(***************************************************************************)
(* Model of the nutrition bot (src/main.py): the in-memory daily ledger    *)
(* daily_data, the food catalog, and the handlers that read and mutate     *)
(* them (free-text message, /add, /undo, /status, /history, the reminders  *)
(* and the midnight reset).                                                *)
(*                                                                         *)
(* Numbers.  Every quantity of the program is a Python float.  A float is  *)
(* modelled as an integer count of tenths (10 units per 1.0) that holds    *)
(* at most MantBits significant bits; the result of every arithmetic       *)
(* operation is rounded to the nearest such value, ties to even, as        *)
(* IEEE-754 does with 53 bits.                                             *)
(*                                                                         *)
(* Dates.  A date key "YYYY-MM-DD" is modelled by the ordinal of its day;  *)
(* strftime and strptime are inverse bijections between the two and the    *)
(* order of the keys is the order of the days.  The time of day is         *)
(* modelled in minutes past midnight, up to MaxTod.                        *)
(***************************************************************************)
EXTENDS Integers, Sequences, FiniteSets, TLC

\* ------------------------------------------------------------------ bounds
MaxDay == 1       \* last day of the clock, specification Spec and the small ones
MaxAge == 5       \* last day of the clock, SpecRetention, SpecLog and SpecDaily
MaxTod == 1       \* last minute of the day the clock tells apart
MaxEntries == 2   \* entries in the ledger, specification Spec
MaxKept == 1      \* entries in the ledger, SpecRetention and SpecDaily
MaxUndo == 3      \* entries in the ledger, specification SpecUndo
MaxItems == 2     \* segments of a text message
MantBits == 12    \* significant bits of a float

\* --------------------------------------------------------------- numerics
RECURSIVE Pow2(_)
Pow2(n) == IF n = 0 THEN 1 ELSE 2 * Pow2(n - 1)

Abs(x) == IF x < 0 THEN -x ELSE x

\* nearest integer to n/d (n >= 0, d > 0), ties to even
RoundHalfEven(n, d) ==
    LET f == n \div d
        r == n % d
    IN  IF 2 * r < d THEN f
        ELSE IF 2 * r > d THEN f + 1
        ELSE IF f % 2 = 0 THEN f ELSE f + 1

\* the exponent e >= 0 of the binade of n/d: least e with n/d < 2^(MantBits+e)
RECURSIVE Binade(_, _, _)
Binade(n, d, e) ==
    IF n < d * Pow2(MantBits + e) THEN e ELSE Binade(n, d, e + 1)

\* the float nearest to the rational n/d (d > 0)
RoundQ(n, d) ==
    LET a == Abs(n)
        q == Pow2(Binade(a, d, 0))
        m == q * RoundHalfEven(a, d * q)
    IN  IF n < 0 THEN -m ELSE m

FAdd(a, b) == RoundQ(a + b, 1)
FSub(a, b) == RoundQ(a - b, 1)
\* a and b count tenths, and so does the result
FMul(a, b) == RoundQ(a * b, 10)
FDiv(a, b) == RoundQ(a * 10, b)

\* float(<decimal literal>): the float nearest to the literal's value
Float(tenths) == RoundQ(tenths, 1)

\* round(x) to a whole number, as the format ":.0f" does
Fmt0(a) == IF a < 0 THEN -RoundHalfEven(-a, 10) ELSE RoundHalfEven(a, 10)

\* ------------------------------------------------------------------ clock
\* datetime.now(TIMEZONE): the day and the minutes past midnight

\* the clock one step later: the next minute, or midnight of the next day
\* once the clock shows MaxTod (which stands for the rest of the day); the
\* clock stops at the end of day H
NextInstants(c, H) ==
    IF c.tod < MaxTod THEN {[day |-> c.day, tod |-> c.tod + 1]}
    ELSE IF c.day < H THEN {[day |-> c.day + 1, tod |-> 0]}
    ELSE {}

\* the values a later read of the clock can give
After(c, H) == {c} \cup NextInstants(c, H)

\* n successive reads of the clock, the first one not before c
RECURSIVE ClockReads(_, _, _)
ClockReads(c, n, H) ==
    IF n = 0 THEN {<< >>}
    ELSE UNION {{<<d>> \o r : r \in ClockReads(d, n - 1, H)} : d \in After(c, H)}

get_today_key(c) == c.day
HourMinute(c) == c.tod

\* ---------------------------------------------------------------- ledger
Keys == <<"kcal", "proteines", "lipides", "glucides">>
KeySet == {Keys[i] : i \in 1..4}

DAILY_GOALS ==
    [kcal |-> 31000, proteines |-> 1600, lipides |-> 900, glucides |-> 4000]

ZeroTotals == [k \in KeySet |-> 0]

\* Python's None; an optional number n is <<n>>
None == << >>

EmptyDay == [entries |-> << >>, totals |-> ZeroTotals]

\* init_day without its test "if date_key not in daily_data"
init_day_reset(data, date_key) ==
    [k \in DOMAIN data \cup {date_key} |->
        IF k = date_key THEN EmptyDay ELSE data[k]]

\* init_day that starts a new day from the totals of the day before
init_day_carry(data, date_key) ==
    IF date_key \notin DOMAIN data
    THEN [k \in DOMAIN data \cup {date_key} |->
              IF k # date_key THEN data[k]
              ELSE IF date_key - 1 \in DOMAIN data
                   THEN [entries |-> << >>, totals |-> data[date_key - 1].totals]
                   ELSE EmptyDay]
    ELSE data

\* daily_data as a function from date keys to day records
init_day(data, date_key) ==
    IF date_key \notin DOMAIN data
    THEN [k \in DOMAIN data \cup {date_key} |->
              IF k = date_key THEN EmptyDay ELSE data[k]]
    ELSE data

\* the cutoff three days earlier
BeforeCutoffThreeDays(date_key, c) ==
    \/ date_key < c.day - 3
    \/ date_key = c.day - 3 /\ 0 < c.tod

\* the cutoff five days earlier
BeforeCutoffFiveDays(date_key, c) ==
    \/ date_key < c.day - 5
    \/ date_key = c.day - 5 /\ 0 < c.tod

\* date < cutoff.replace(tzinfo=None), where date is midnight of the day of
\* date_key and cutoff is the clock four days earlier
BeforeCutoff(date_key, c) ==
    LET cutoff == [day |-> c.day - 4, tod |-> c.tod]
    IN  \/ date_key < cutoff.day
        \/ date_key = cutoff.day /\ 0 < cutoff.tod

Prune(data, c) ==
    LET keys_to_delete == {k \in DOMAIN data : BeforeCutoff(k, c)}
    IN  [k \in DOMAIN data \ keys_to_delete |-> data[k]]

\* get_remaining that also deletes the old days
RemainingDataPruned(data, c) == Prune(init_day(data, get_today_key(c)), c)

\* get_remaining(): picks its own date key from the clock value c, creates
\* the day when absent, and subtracts its totals from the goals
RemainingData(data, c) == init_day(data, get_today_key(c))
get_remaining(data, c) ==
    LET totals == RemainingData(data, c)[get_today_key(c)].totals
    IN  [k \in KeySet |-> FSub(DAILY_GOALS[k], totals[k])]

\* create_progress_bar(current, goal): pct, in thousandths of a percent (the
\* quotient current / goal is a float of a much smaller magnitude than the
\* totals, and is counted in a unit that keeps its sign and its digits), and
\* the number of filled marks of the bar of length 8
create_progress_bar(current, goal) ==
    LET ratio == RoundQ(current * 100000, goal)
        pct == IF goal > 0 THEN (IF ratio < 100000 THEN ratio ELSE 100000) ELSE 0
    IN  [pct |-> pct,
         filled |-> IF pct >= 0 THEN pct \div 12500 ELSE -((-pct) \div 12500)]

\* totals[key] += macros[key] for the four keys
AddMacros(totals, macros) == [k \in KeySet |-> FAdd(totals[k], macros[k])]
SubMacros(totals, macros) == [k \in KeySet |-> FSub(totals[k], macros[k])]

\* entries.insert(0, entry): the entry is put in front of the entries of the day
PrependEntry(data, today, entry) ==
    [data EXCEPT ![today] =
        [entries |-> <<entry>> \o @.entries,
         totals  |-> AddMacros(@.totals, entry.macros)]]

\* daily_data[today]["entries"].append(entry) and the update of the totals
AppendEntry(data, today, entry) ==
    [data EXCEPT ![today] =
        [entries |-> Append(@.entries, entry),
         totals  |-> AddMacros(@.totals, entry.macros)]]

TotalEntries(data) ==
    LET RECURSIVE Count(_)
        Count(S) == IF S = {} THEN 0
                    ELSE LET k == CHOOSE x \in S : TRUE
                         IN  Len(data[k].entries) + Count(S \ {k})
    IN  Count(DOMAIN data)

\* --------------------------------------------------------------- catalog
\* food names are character sequences, so that "in" on strings is computed
RIZ == <<"r", "i", "z">>
OEUF == <<"o", "e", "u", "f">>
OEUFS == OEUF \o <<"s">>
LICORNE == <<"l", "i", "c", "o", "r", "n", "e">>
TOFU == <<"t", "o", "f", "u">>

\* a in b, for two strings
IsSubstr(a, b) ==
    \E i \in 0..(Len(b) - Len(a)) : SubSeq(b, i + 1, i + Len(a)) = a

\* per-100g macros (kcal, proteines, lipides, glucides), in tenths
InitialFoods ==
    [n \in {RIZ, OEUFS} |->
        IF n = RIZ THEN <<1300, 27, 3, 280>> ELSE <<1550, 130, 110, 10>>]

\* standard weight of one unit, in tenths of a gram, in the order of the dict
STANDARD_UNITS == << <<OEUF, 600>> >>

get_food_info(foods, name) ==
    IF name \in DOMAIN foods THEN foods[name] ELSE None

\* ----------------------------------------------------------------- parser
\* a decimal literal \d+(?:[.,]\d+)? with at most one digit after the separator
Lit(w, s, f) == [whole |-> w, sep |-> s, frac |-> f]
Whole(w) == Lit(w, "", 0)

\* float(group.replace(',', '.'))
LitValue(l) == Float(l.whole * 10 + (IF l.sep = "" THEN 0 ELSE l.frac))

\* one segment of re.split: whether it is empty after strip, and the groups of
\* the match of the two patterns (<<groups>>, or None when it does not match)
Item(e, pre, suf) == [empty |-> e, prefix |-> pre, suffix |-> suf]
Groups(q, u, n) == [quantity |-> q, unit |-> u, food |-> n]

\* the per-unit weight found in STANDARD_UNITS by substring match, else None
RECURSIVE StdLookup(_, _)
StdLookup(food_name, i) ==
    IF i > Len(STANDARD_UNITS) THEN None
    ELSE IF IsSubstr(STANDARD_UNITS[i][1], food_name)
            \/ IsSubstr(food_name, STANDARD_UNITS[i][1])
         THEN <<STANDARD_UNITS[i][2]>>
         ELSE StdLookup(food_name, i + 1)

StdExact(food_name) ==
    LET S == {i \in 1..Len(STANDARD_UNITS) : STANDARD_UNITS[i][1] = food_name}
    IN  IF S = {} THEN None ELSE <<STANDARD_UNITS[CHOOSE i \in S : TRUE][2]>>

\* "Convertir en grammes"
ToGrams(foods, quantity, unit, food_name) ==
    IF unit = "kg" THEN FMul(quantity, 10000)
    ELSE IF unit = "cl" THEN FMul(quantity, 100)
    ELSE IF unit = "l" THEN FMul(quantity, 10000)
    ELSE IF unit = "ml" THEN quantity
    ELSE IF unit \in {"g", "gr", "gramme", "grammes", ""}
    THEN IF unit = "" /\ quantity <= 200
         THEN LET unit_grams == StdLookup(food_name, 1)
              IN  IF unit_grams # None /\ unit_grams[1] # 0
                  THEN FMul(quantity, unit_grams[1])
                  ELSE IF get_food_info(foods, food_name) # None
                          /\ StdExact(food_name) # None
                       THEN FMul(quantity, StdExact(food_name)[1])
                       ELSE quantity
         ELSE quantity
    ELSE quantity

\* the declaration with the macros of 100 g, whatever the grams
DeclareUnscaled(foods, food_name, grams) ==
    LET food_info == get_food_info(foods, food_name)
    IN  [food |-> food_name, grams |-> grams,
         macros |-> IF food_info # None
                    THEN [k \in KeySet |->
                            food_info[CHOOSE i \in 1..4 : Keys[i] = k]]
                    ELSE None]

\* "Chercher l'aliment dans la base": the declaration (food, grams, macros)
Declare(foods, food_name, grams) ==
    LET food_info == get_food_info(foods, food_name)
        ratio == FDiv(grams, 1000)
    IN  [food |-> food_name, grams |-> grams,
         macros |-> IF food_info # None
                    THEN [k \in KeySet |->
                            FMul(food_info[CHOOSE i \in 1..4 : Keys[i] = k], ratio)]
                    ELSE None]

\* the body of the loop over the items: the declarations of one item
ParseItem(foods, item) ==
    IF item.empty THEN << >>
    ELSE IF item.prefix # None
    THEN LET m == item.prefix[1]
             quantity == LitValue(m.quantity)
         IN  <<Declare(foods, m.food, ToGrams(foods, quantity, m.unit, m.food))>>
    ELSE IF item.suffix # None
    THEN LET m == item.suffix[1]
             quantity == LitValue(m.quantity)
         IN  <<Declare(foods, m.food, ToGrams(foods, quantity, m.unit, m.food))>>
    ELSE << >>

\* the loop left at the first item that gives no declaration
RECURSIVE ParseUntilUnrecognised(_, _)
ParseUntilUnrecognised(foods, items) ==
    IF items = << >> \/ ParseItem(foods, Head(items)) = << >> THEN << >>
    ELSE ParseItem(foods, Head(items))
         \o ParseUntilUnrecognised(foods, Tail(items))

RECURSIVE parse_food_entry(_, _)
parse_food_entry(foods, items) ==
    IF items = << >> THEN << >>
    ELSE ParseItem(foods, Head(items)) \o parse_food_entry(foods, Tail(items))

\* ------------------------------------------------------------------- text
\* A text is a sequence of characters.  The two patterns of parse_food_entry
\* are matched as re.match does: the alternatives and the repetitions are
\* tried in the order of the pattern, and the first way that reaches the end
\* of the item is the match.
LOWERCASE ==
    <<"a", "b", "c", "d", "e", "f", "g", "h", "i", "j", "k", "l", "m",
      "n", "o", "p", "q", "r", "s", "t", "u", "v", "w", "x", "y", "z">>
UPPERCASE ==
    <<"A", "B", "C", "D", "E", "F", "G", "H", "I", "J", "K", "L", "M",
      "N", "O", "P", "Q", "R", "S", "T", "U", "V", "W", "X", "Y", "Z">>
DIGITS == <<"0", "1", "2", "3", "4", "5", "6", "7", "8", "9">>

InSeq(c, s) == \E i \in 1..Len(s) : s[i] = c
IndexOf(c, s) == CHOOSE i \in 1..Len(s) : s[i] = c

\* the classes \d, \s and \w
IsDigit(c) == InSeq(c, DIGITS)
IsSpace(c) == c \in {" ", "\t", "\n"}
IsWord(c) == IsDigit(c) \/ InSeq(c, LOWERCASE) \/ InSeq(c, UPPERCASE) \/ c = "_"

\* str.lower()
lower(text) ==
    [i \in 1..Len(text) |->
        IF InSeq(text[i], UPPERCASE)
        THEN LOWERCASE[IndexOf(text[i], UPPERCASE)] ELSE text[i]]

\* str.strip()
RECURSIVE LStrip(_)
LStrip(s) == IF s # << >> /\ IsSpace(Head(s)) THEN LStrip(Tail(s)) ELSE s
RECURSIVE RStrip(_)
RStrip(s) ==
    IF s # << >> /\ IsSpace(s[Len(s)]) THEN RStrip(SubSeq(s, 1, Len(s) - 1))
    ELSE s
strip(s) == RStrip(LStrip(s))

\* s has u at position p
StartsWith(s, p, u) ==
    p + Len(u) - 1 <= Len(s) /\ SubSeq(s, p, p + Len(u) - 1) = u

\* the number of digits, and of blanks, of s from position p on
RECURSIVE DigitRun(_, _)
DigitRun(s, p) ==
    IF p <= Len(s) /\ IsDigit(s[p]) THEN 1 + DigitRun(s, p + 1) ELSE 0
RECURSIVE SpaceRun(_, _)
SpaceRun(s, p) ==
    IF p <= Len(s) /\ IsSpace(s[p]) THEN 1 + SpaceRun(s, p + 1) ELSE 0

\* the number of characters of [,\n] from position i on
RECURSIVE CommaRun(_, _)
CommaRun(text, i) ==
    IF i <= Len(text) /\ text[i] \in {",", "\n"}
    THEN 1 + CommaRun(text, i + 1) ELSE 0

\* \b at position i: exactly one of the characters i - 1 and i is a word one
Boundary(text, i) ==
    (i - 1 >= 1 /\ IsWord(text[i - 1])) # (i <= Len(text) /\ IsWord(text[i]))

\* the length of the match of [,\n]+|\bet\b at position i, 0 without a match
SepAt(text, i) ==
    IF CommaRun(text, i) > 0 THEN CommaRun(text, i)
    ELSE IF /\ StartsWith(text, i, <<"e", "t">>)
            /\ Boundary(text, i)
            /\ Boundary(text, i + 2)
         THEN 2
    ELSE 0

\* re.split(r'[,\n]+|\bet\b', text): the segments between the matches, from
\* position i on, the current segment starting at position start
RECURSIVE SplitFrom(_, _, _)
SplitFrom(text, i, start) ==
    IF i > Len(text) THEN <<SubSeq(text, start, Len(text))>>
    ELSE LET n == SepAt(text, i)
         IN  IF n > 0
             THEN <<SubSeq(text, start, i - 1)>> \o SplitFrom(text, i + n, i + n)
             ELSE SplitFrom(text, i + 1, start)

re_split(text) == SplitFrom(text, 1, 1)

\* the value of a string of digits
RECURSIVE DigitsValue(_)
DigitsValue(ds) ==
    IF ds = << >> THEN 0
    ELSE 10 * DigitsValue(SubSeq(ds, 1, Len(ds) - 1))
         + (IndexOf(ds[Len(ds)], DIGITS) - 1)

\* the literal matched by (\d+(?:[.,]\d+)?); the texts of the model have at
\* most one digit after the separator
ToLit(chars) ==
    LET d == DigitRun(chars, 1)
    IN  IF d = Len(chars) THEN Whole(DigitsValue(chars))
        ELSE Lit(DigitsValue(SubSeq(chars, 1, d)), chars[d + 1],
                 DigitsValue(SubSeq(chars, d + 2, Len(chars))))

\* the ends (the position after the last character) of the matches of
\* \d+(?:[.,]\d+)? at position p, in the order in which they are tried
NumberEnds(s, p) ==
    LET d == DigitRun(s, p)
        f == IF d > 0 /\ p + d <= Len(s) /\ s[p + d] \in {".", ","}
             THEN DigitRun(s, p + d + 1) ELSE 0
    IN  [k \in 1..f |-> p + d + 1 + (f - k + 1)]
        \o [k \in 1..d |-> p + d - k + 1]

\* the alternatives of (g|gr|grammes?|ml|cl|l|kg)? in the order in which they
\* are tried, the empty one last
Unit(chars, name) == [chars |-> chars, name |-> name]
UnitAlternatives ==
    <<Unit(<<"g">>, "g"), Unit(<<"g", "r">>, "gr"),
      Unit(<<"g", "r", "a", "m", "m", "e", "s">>, "grammes"),
      Unit(<<"g", "r", "a", "m", "m", "e">>, "gramme"),
      Unit(<<"m", "l">>, "ml"), Unit(<<"c", "l">>, "cl"),
      Unit(<<"l">>, "l"), Unit(<<"k", "g">>, "kg"), Unit(<< >>, "")>>

\* (?:de\s+|d\')?(.+)$ at position e: the position where group 3 starts
FoodStart(s, e) ==
    LET w == SpaceRun(s, e + 2)
        K == {k \in 1..w : e + 2 + k <= Len(s)}
    IN  IF StartsWith(s, e, <<"d", "e">>) /\ K # {}
        THEN <<e + 2 + (CHOOSE k \in K : \A j \in K : j <= k)>>
        ELSE IF StartsWith(s, e, <<"d", "'">>) /\ e + 2 <= Len(s)
        THEN <<e + 2>>
        ELSE IF e <= Len(s) THEN <<e>>
        ELSE None

\* \s* at position p, k blanks or fewer, then the connector and the food
RECURSIVE SpaceThenFood(_, _, _)
SpaceThenFood(s, p, k) ==
    IF FoodStart(s, p + k) # None THEN FoodStart(s, p + k)
    ELSE IF k = 0 THEN None
    ELSE SpaceThenFood(s, p, k - 1)

\* the unit at position p, alternative i or a later one, and what follows it
RECURSIVE UnitThenFood(_, _, _)
UnitThenFood(s, p, i) ==
    IF i > Len(UnitAlternatives) THEN None
    ELSE LET u == UnitAlternatives[i]
             q == p + Len(u.chars)
             r == IF StartsWith(s, p, u.chars)
                  THEN SpaceThenFood(s, q, SpaceRun(s, q)) ELSE None
         IN  IF r # None THEN <<[unit |-> u.name, food |-> r[1]]>>
             ELSE UnitThenFood(s, p, i + 1)

\* \s* after the number, k blanks or fewer, and what follows
RECURSIVE SpaceThenUnit(_, _, _)
SpaceThenUnit(s, p, k) ==
    IF UnitThenFood(s, p + k, 1) # None THEN UnitThenFood(s, p + k, 1)
    ELSE IF k = 0 THEN None
    ELSE SpaceThenUnit(s, p, k - 1)

\* the number, its end ends[j] or a later one of ends, and what follows
RECURSIVE NumberThenUnit(_, _, _)
NumberThenUnit(s, ends, j) ==
    IF j > Len(ends) THEN None
    ELSE LET e == ends[j]
             r == SpaceThenUnit(s, e, SpaceRun(s, e))
         IN  IF r # None
             THEN <<Groups(ToLit(SubSeq(s, 1, e - 1)), r[1].unit,
                           strip(SubSeq(s, r[1].food, Len(s))))>>
             ELSE NumberThenUnit(s, ends, j + 1)

\* re.match(pattern, item): <<the groups>>, or None
MatchPrefix(item) == NumberThenUnit(item, NumberEnds(item, 1), 1)

\* the unit at position p, alternative i or a later one, up to the end
RECURSIVE UnitToEnd(_, _, _)
UnitToEnd(s, p, i) ==
    IF i > Len(UnitAlternatives) THEN None
    ELSE LET u == UnitAlternatives[i]
         IN  IF StartsWith(s, p, u.chars) /\ p + Len(u.chars) = Len(s) + 1
             THEN <<u.name>>
             ELSE UnitToEnd(s, p, i + 1)

RECURSIVE SpaceThenUnitToEnd(_, _, _)
SpaceThenUnitToEnd(s, p, k) ==
    IF UnitToEnd(s, p + k, 1) # None THEN UnitToEnd(s, p + k, 1)
    ELSE IF k = 0 THEN None
    ELSE SpaceThenUnitToEnd(s, p, k - 1)

\* the number at position p, its end ends[j] or a later one, up to the end
RECURSIVE NumberToEnd(_, _, _, _)
NumberToEnd(s, p, ends, j) ==
    IF j > Len(ends) THEN None
    ELSE LET e == ends[j]
             r == SpaceThenUnitToEnd(s, e, SpaceRun(s, e))
         IN  IF r # None
             THEN <<[quantity |-> ToLit(SubSeq(s, p, e - 1)), unit |-> r[1]]>>
             ELSE NumberToEnd(s, p, ends, j + 1)

\* \s+ at position p, k blanks or fewer and one at least, then the number
RECURSIVE SpaceThenNumber(_, _, _)
SpaceThenNumber(s, p, k) ==
    IF k < 1 THEN None
    ELSE LET r == NumberToEnd(s, p + k, NumberEnds(s, p + k), 1)
         IN  IF r # None THEN r ELSE SpaceThenNumber(s, p, k - 1)

\* (.+?) of n characters or more, then the rest of pattern_inv
RECURSIVE FoodThenNumber(_, _)
FoodThenNumber(s, n) ==
    IF n >= Len(s) THEN None
    ELSE LET r == SpaceThenNumber(s, n + 1, SpaceRun(s, n + 1))
         IN  IF r # None
             THEN <<Groups(r[1].quantity, r[1].unit, strip(SubSeq(s, 1, n)))>>
             ELSE FoodThenNumber(s, n + 1)

\* re.match(pattern_inv, item): <<the groups>>, or None
MatchSuffix(item) == FoodThenNumber(item, 1)

\* one segment of the split, stripped and matched
ItemOf(segment) ==
    LET item == strip(segment)
    IN  IF item = << >> THEN Item(TRUE, None, None)
        ELSE Item(FALSE, MatchPrefix(item), MatchSuffix(item))

\* text.lower().strip(), the split, and the items of the loop
ItemsOf(text) ==
    LET segments == re_split(strip(lower(text)))
    IN  [i \in 1..Len(segments) |-> ItemOf(segments[i])]

\* parse_food_entry(text) on the characters of the text
ParseText(foods, text) == parse_food_entry(foods, ItemsOf(text))

\* ------------------------------------------------------------------ inputs
\* "200g riz", "200g licorne" and "bonjour"
ItemRiz == Item(FALSE, <<Groups(Whole(200), "g", RIZ)>>, None)
ItemInconnu == Item(FALSE, <<Groups(Whole(200), "g", LICORNE)>>, None)
ItemNoMatch == Item(FALSE, None, None)

Items == {ItemRiz, ItemInconnu, ItemNoMatch}

\* update.message.text: whether it starts with '/', and its segments
TextsOf(items) ==
    {[slash |-> TRUE, items |-> << >>]}
    \cup {[slash |-> FALSE, items |-> s] :
              s \in UNION {[1..n -> items] : n \in 1..MaxItems}}

FoodTexts == TextsOf(Items)

\* the groups of a match of the quick-add patterns
QuickGroups(g, k, p, l, c) ==
    [grams |-> g, kcal |-> k, prot |-> p, lip |-> l, gluc |-> c]

\* one field of full_args.split('|'): whether float() accepts it, and its value
Field(ok, v) == [numeric |-> ok, value |-> v]

\* context.args:
\*   kind "none"  - no argument
\*   kind "pipe"  - full_args contains '|': the name and the other fields
\*   kind "quick" - no '|': the match of pattern and of pattern_no_qty
NoArgs == [kind |-> "none"]
PipeArgs(name, fields) == [kind |-> "pipe", name |-> name, fields |-> fields]
QuickArgs(with_qty, no_qty) ==
    [kind |-> "quick", with_qty |-> with_qty, no_qty |-> no_qty]

\* "30g 149.7kcal 10p 5l 8g"
QuickWithQty ==
    QuickArgs(<<QuickGroups(Whole(30), Lit(149, ".", 7), Whole(10), Whole(5), Whole(8))>>,
              None)

\* "150kcal 10p 5l 8g"
QuickNoQty ==
    QuickArgs(None,
              <<QuickGroups(None, Whole(150), Whole(10), Whole(5), Whole(8))>>)

\* "bonjour"
QuickNoMatch == QuickArgs(None, None)

\* "tofu|120|12|7|2", "tofu|120|x|7|2" and "tofu|120|12|7"
PipeSaved ==
    PipeArgs(TOFU, <<Field(TRUE, 1200), Field(TRUE, 120), Field(TRUE, 70),
                     Field(TRUE, 20)>>)
PipeNotNumber ==
    PipeArgs(TOFU, <<Field(TRUE, 1200), Field(FALSE, 0), Field(TRUE, 70),
                     Field(TRUE, 20)>>)
PipeFourFields ==
    PipeArgs(TOFU, <<Field(TRUE, 1200), Field(TRUE, 120), Field(TRUE, 70)>>)

\* "tofu|-120|12|7|2": float() accepts a sign
PipeNegative ==
    PipeArgs(TOFU, <<Field(TRUE, -1200), Field(TRUE, 120), Field(TRUE, 70),
                     Field(TRUE, 20)>>)

\* "200g tofu"
ItemTofu == Item(FALSE, <<Groups(Whole(200), "g", TOFU)>>, None)

AddArgs ==
    {NoArgs, PipeSaved, PipeNotNumber, PipeFourFields, QuickWithQty, QuickNoMatch}

ReminderTypes == {"midi", "soir", "recap"}

\* ------------------------------------------------------------------- state
VARIABLES
    daily_data,        \* date key -> [entries, totals]
    FOODS_DATABASE,    \* food name -> per-100g macros
    now,               \* the wall clock, datetime.now(TIMEZONE)
    event              \* what the last step replied, sent or logged

vars == <<daily_data, FOODS_DATABASE, now, event>>

\* the reply of a handler: the handler, the outcome, the date key it picked,
\* the totals and remaining values it shows, and what else it shows; before
\* is the record of that day as a handler that changes it found it, and
\* input the arguments of /add
Event(op, result, today, totals, remaining, detail, before) ==
    [op |-> op, result |-> result, today |-> today, totals |-> totals,
     remaining |-> remaining, detail |-> detail, before |-> before,
     input |-> None]

\* a reply that shows no figures
Reply(op, result) == Event(op, result, None, None, None, None, None)

\* the reply to /add
AddReply(e, args) == [e EXCEPT !.input = args]

Init ==
    /\ daily_data = [k \in {} |-> EmptyDay]
    /\ FOODS_DATABASE = InitialFoods
    /\ now \in [day : {0}, tod : 0..MaxTod]
    /\ event = Reply("start", "ok")

\* time passes without any handler running
Tick(H) ==
    /\ now' \in NextInstants(now, H)
    /\ event' = Reply("tick", "ok")
    /\ UNCHANGED <<daily_data, FOODS_DATABASE>>

\* /status
status(H) ==
    \E c \in After(now, H) :
        LET today == get_today_key(now)
            data1 == init_day(daily_data, today)
            totals == data1[today].totals
            remaining == get_remaining(data1, c)
        IN  /\ daily_data' = RemainingData(data1, c)
            /\ now' = c
            /\ event' = Event("status", "ok", today, totals, remaining,
                              [created |-> today \notin DOMAIN daily_data], None)
            /\ UNCHANGED FOODS_DATABASE

\* /history: the totals of those of the last three days that have entries
history ==
    LET today == get_today_key(now)
        shown == {k \in {today - i : i \in 0..2} :
                      k \in DOMAIN daily_data /\ daily_data[k].entries # << >>}
    IN  /\ event' = Event("history", "ok", today, None, None,
                          [k \in shown |-> daily_data[k].totals], None)
        /\ UNCHANGED <<daily_data, FOODS_DATABASE, now>>

\* entries.pop(0): the first entry is removed instead of the last
PopFirst(data, today) ==
    LET first == data[today].entries[1]
    IN  [data EXCEPT ![today] =
            [entries |-> SubSeq(@.entries, 2, Len(@.entries)),
             totals  |-> SubMacros(@.totals, first.macros)]]

\* entries.pop() and the subtraction of the popped macros from the totals
PopLast(data, today) ==
    LET last == data[today].entries[Len(data[today].entries)]
    IN  [data EXCEPT ![today] =
            [entries |-> SubSeq(@.entries, 1, Len(@.entries) - 1),
             totals  |-> SubMacros(@.totals, last.macros)]]

\* /undo
undo(H) ==
    LET today == get_today_key(now)
        data1 == init_day(daily_data, today)
    IN  IF data1[today].entries = << >>
        THEN /\ daily_data' = data1
             /\ event' = Event("undo", "empty", today, None, None, None, None)
             /\ UNCHANGED <<FOODS_DATABASE, now>>
        ELSE \E c \in After(now, H) :
               LET last == data1[today].entries[Len(data1[today].entries)]
                   data2 == PopLast(data1, today)
                   remaining == get_remaining(data2, c)
               IN  /\ daily_data' = RemainingData(data2, c)
                   /\ now' = c
                   /\ event' = Event("undo", "ok", today, None, remaining, last,
                                     data1[today])
                   /\ UNCHANGED FOODS_DATABASE

\* FOODS_DATABASE[name] = (kcal, prot, lip, gluc)
SaveFood(foods, name, info) ==
    [n \in DOMAIN foods \cup {name} |-> IF n = name THEN info ELSE foods[n]]

\* mode 2 that saves the food before it converts the fields
AddToDatabaseEager(args) ==
    IF Len(args.fields) + 1 # 5
    THEN /\ event' = AddReply(Reply("add", "format"), args)
         /\ UNCHANGED <<daily_data, FOODS_DATABASE, now>>
    ELSE /\ FOODS_DATABASE' =
                SaveFood(FOODS_DATABASE, args.name,
                         [i \in 1..4 |-> IF args.fields[i].numeric
                                         THEN args.fields[i].value ELSE 0])
         /\ event' = IF \E i \in 1..4 : ~args.fields[i].numeric
                     THEN AddReply(Reply("add", "not numbers"), args)
                     ELSE AddReply(Event("add", "saved", None, None, None,
                                         args.name, None), args)
         /\ UNCHANGED <<daily_data, now>>

\* mode 2 that saves the fields in the order kcal, lip, prot, gluc
AddToDatabaseSwapped(args) ==
    IF Len(args.fields) + 1 # 5
    THEN /\ event' = AddReply(Reply("add", "format"), args)
         /\ UNCHANGED <<daily_data, FOODS_DATABASE, now>>
    ELSE IF \E i \in 1..4 : ~args.fields[i].numeric
    THEN /\ event' = AddReply(Reply("add", "not numbers"), args)
         /\ UNCHANGED <<daily_data, FOODS_DATABASE, now>>
    ELSE /\ FOODS_DATABASE' =
                SaveFood(FOODS_DATABASE, args.name,
                         <<args.fields[1].value, args.fields[3].value,
                           args.fields[2].value, args.fields[4].value>>)
         /\ event' = AddReply(Event("add", "saved", None, None, None,
                                     args.name, None), args)
         /\ UNCHANGED <<daily_data, now>>

\* /add, mode 2: save a food in the catalog
AddToDatabase(args) ==
    IF Len(args.fields) + 1 # 5
    THEN /\ event' = AddReply(Reply("add", "format"), args)
         /\ UNCHANGED <<daily_data, FOODS_DATABASE, now>>
    ELSE IF \E i \in 1..4 : ~args.fields[i].numeric
    THEN /\ event' = AddReply(Reply("add", "not numbers"), args)
         /\ UNCHANGED <<daily_data, FOODS_DATABASE, now>>
    ELSE /\ FOODS_DATABASE' =
                SaveFood(FOODS_DATABASE, args.name,
                         [i \in 1..4 |-> args.fields[i].value])
         /\ event' = AddReply(Event("add", "saved", None, None, None,
                                     args.name, None), args)
         /\ UNCHANGED <<daily_data, now>>

\* /add, mode 1: the grams and the macros of a quick add, None when neither
\* pattern matches
QuickMacros(m) ==
    [kcal |-> LitValue(m.kcal), proteines |-> LitValue(m.prot),
     lipides |-> LitValue(m.lip), glucides |-> LitValue(m.gluc)]

\* the macros of the text taken for those of 100 g and scaled to the grams
QuickParseScaled(args) ==
    IF args.with_qty # None
    THEN LET grams == LitValue(args.with_qty[1].grams)
             stated == QuickMacros(args.with_qty[1])
         IN  <<[grams |-> grams,
                macros |-> [k \in KeySet |->
                               FMul(stated[k], FDiv(grams, 1000))]]>>
    ELSE IF args.no_qty # None
    THEN <<[grams |-> 1000, macros |-> QuickMacros(args.no_qty[1])]>>
    ELSE None

QuickParse(args) ==
    IF args.with_qty # None
    THEN <<[grams |-> LitValue(args.with_qty[1].grams),
            macros |-> QuickMacros(args.with_qty[1])]>>
    ELSE IF args.no_qty # None
    THEN <<[grams |-> 1000, macros |-> QuickMacros(args.no_qty[1])]>>
    ELSE None

QuickAdd(args, H, cap) ==
    LET q == QuickParse(args)
    IN  IF q = None
        THEN /\ event' = AddReply(Reply("add", "unrecognised"), args)
             /\ UNCHANGED <<daily_data, FOODS_DATABASE, now>>
        ELSE /\ TotalEntries(daily_data) < cap
             /\ \E r \in ClockReads(now, 2, H) :
                  LET today == get_today_key(now)
                      data1 == init_day(daily_data, today)
                      entry == [food |-> <<"ajout manuel", Fmt0(q[1].grams)>>,
                                quantity |-> q[1].grams,
                                macros |-> q[1].macros,
                                time |-> HourMinute(r[1])]
                      data2 == AppendEntry(data1, today, entry)
                      remaining == get_remaining(data2, r[2])
                      data3 == RemainingData(data2, r[2])
                  IN  /\ daily_data' = data3
                      /\ now' = r[2]
                      /\ event' = AddReply(Event("add", "ok", today,
                                                 data3[today].totals, remaining,
                                                 <<entry>>, data1[today]), args)
                      /\ UNCHANGED FOODS_DATABASE

\* /add
add_food(H, Args, cap) ==
    \E args \in Args :
        IF args.kind = "none"
        THEN /\ event' = AddReply(Reply("add", "usage"), args)
             /\ UNCHANGED <<daily_data, FOODS_DATABASE, now>>
        ELSE IF args.kind = "pipe" THEN AddToDatabase(args)
        ELSE QuickAdd(args, H, cap)

\* the loop left at the first declaration without macros
RECURSIVE RecordUntilNotFound(_, _, _, _)
RecordUntilNotFound(data, today, decls, reads) ==
    IF decls = << >> \/ Head(decls).macros = None THEN data
    ELSE RecordUntilNotFound(
             AppendEntry(data, today,
                 [food |-> Head(decls).food, quantity |-> Head(decls).grams,
                  macros |-> Head(decls).macros,
                  time |-> HourMinute(Head(reads))]),
             today, Tail(decls), Tail(reads))

\* the loop over the declarations: the entry of every declaration that has
\* macros is appended to the day and added to its totals; reads[i] is the
\* clock when declaration i is recorded
RECURSIVE RecordAll(_, _, _, _)
RecordAll(data, today, decls, reads) ==
    IF decls = << >> THEN data
    ELSE LET d == Head(decls)
             next == IF d.macros # None
                     THEN AppendEntry(data, today,
                              [food |-> d.food, quantity |-> d.grams,
                               macros |-> d.macros,
                               time |-> HourMinute(Head(reads))])
                     ELSE data
         IN  RecordAll(next, today, Tail(decls), Tail(reads))

\* not_found: the names of the declarations without macros, in order
RECURSIVE NotFound(_)
NotFound(decls) ==
    IF decls = << >> THEN << >>
    ELSE (IF Head(decls).macros = None THEN <<Head(decls).food>> ELSE << >>)
         \o NotFound(Tail(decls))

Resolved(decls) == Len(decls) - Len(NotFound(decls))

\* a text message that is not a command
handle_food_message(H, Texts, cap) ==
    \E text \in Texts :
        IF text.slash
        THEN /\ event' = Reply("food", "ignored")
             /\ UNCHANGED <<daily_data, FOODS_DATABASE, now>>
        ELSE LET today == get_today_key(now)
                 data1 == init_day(daily_data, today)
                 entries == parse_food_entry(FOODS_DATABASE, text.items)
             IN  IF entries = << >>
                 THEN /\ daily_data' = data1
                      /\ event' = Event("food", "not understood", today,
                                        None, None, None, None)
                      /\ UNCHANGED <<FOODS_DATABASE, now>>
                 ELSE /\ TotalEntries(daily_data) + Resolved(entries) <= cap
                      /\ \E r \in ClockReads(now, Len(entries) + 1, H) :
                           LET data2 == RecordAll(data1, today, entries, r)
                               last == r[Len(r)]
                               remaining == get_remaining(data2, last)
                               data3 == RemainingData(data2, last)
                           IN  /\ daily_data' = data3
                               /\ now' = last
                               /\ event' = Event("food", "ok", today,
                                                 data3[today].totals, remaining,
                                                 entries, data1[today])
                               /\ UNCHANGED FOODS_DATABASE

\* the scheduled reminders of 12h, 18h and 23h.  CHAT_ID is read from the
\* environment once; nothing else depends on it, so the model draws it at
\* each reminder, which gives the behaviours of both configurations.
send_reminder(H) ==
    \E reminder_type \in ReminderTypes, CHAT_ID \in BOOLEAN :
        IF ~CHAT_ID
        THEN /\ event' = Reply("reminder", "skipped")
             /\ UNCHANGED <<daily_data, FOODS_DATABASE, now>>
        ELSE \E c \in After(now, H) :
               LET today == get_today_key(now)
                   data1 == init_day(daily_data, today)
                   totals == data1[today].totals
                   remaining == get_remaining(data1, c)
               IN  /\ daily_data' = RemainingData(data1, c)
                   /\ now' = c
                   /\ event' = Event("reminder", "sent", today, totals, remaining,
                                     [created |-> today \notin DOMAIN daily_data],
                                     None)
                   /\ UNCHANGED FOODS_DATABASE

\* the job of 00:01
midnight_reset ==
    /\ now.tod >= 1
    /\ daily_data' = Prune(daily_data, now)
    /\ event' = Event("reset", "ok", get_today_key(now), None, None,
                      {k \in DOMAIN daily_data : BeforeCutoff(k, now)}, None)
    /\ UNCHANGED <<FOODS_DATABASE, now>>

\* ---------------------------------------------------------- specifications
\* every handler, over the days 0..MaxDay
Next ==
    \/ Tick(MaxDay)
    \/ status(MaxDay)
    \/ history
    \/ undo(MaxDay)
    \/ add_food(MaxDay, AddArgs, MaxEntries)
    \/ handle_food_message(MaxDay, FoodTexts, MaxEntries)
    \/ send_reminder(MaxDay)
    \/ midnight_reset

Spec == Init /\ [][Next]_vars

\* every handler, over the days 0..MaxAge, with "/add 150kcal 10p 5l 8g",
\* "/add tofu|120|12|7|2" and the message "200g riz"
RetentionArgs == {QuickNoQty, PipeSaved}
RetentionTexts == {[slash |-> FALSE, items |-> <<ItemRiz>>]}

NextRetention ==
    \/ Tick(MaxAge)
    \/ status(MaxAge)
    \/ history
    \/ undo(MaxAge)
    \/ add_food(MaxAge, RetentionArgs, MaxKept)
    \/ handle_food_message(MaxAge, RetentionTexts, MaxKept)
    \/ send_reminder(MaxAge)
    \/ midnight_reset

SpecRetention == Init /\ [][NextRetention]_vars

\* the appends and the undo, over the days 0..MaxDay, with
\* "/add 150kcal 10p 5l 8g" and messages made of "200g riz"
NextUndo ==
    \/ Tick(MaxDay)
    \/ undo(MaxDay)
    \/ add_food(MaxDay, {QuickNoQty}, MaxUndo)
    \/ handle_food_message(MaxDay, TextsOf({ItemRiz}), MaxUndo)

SpecUndo == Init /\ [][NextUndo]_vars

\* the quick adds and the undo, over the days 0..MaxDay, with
\* "/add 30g 149.7kcal 10p 5l 8g", "/add 150kcal 10p 5l 8g" and "/add bonjour"
QuickTexts == {QuickWithQty, QuickNoQty, QuickNoMatch}

NextQuick ==
    \/ Tick(MaxDay)
    \/ undo(MaxDay)
    \/ add_food(MaxDay, QuickTexts, MaxEntries)

SpecQuick == Init /\ [][NextQuick]_vars

\* the appends, the undo and the job of 00:01, over the days 0..MaxAge, with
\* "/add 150kcal 10p 5l 8g" and the message "200g riz"
NextLog ==
    \/ Tick(MaxAge)
    \/ undo(MaxAge)
    \/ add_food(MaxAge, {QuickNoQty}, MaxEntries)
    \/ handle_food_message(MaxAge, RetentionTexts, MaxEntries)
    \/ midnight_reset

SpecLog == Init /\ [][NextLog]_vars

\* the additions to the catalog and the messages that use them, over the
\* days 0..MaxDay, with "/add tofu|120|12|7|2", "/add tofu|-120|12|7|2" and
\* messages made of "200g tofu"
CatalogArgs == {PipeSaved, PipeNegative}

NextCatalog ==
    \/ Tick(MaxDay)
    \/ add_food(MaxDay, CatalogArgs, MaxEntries)
    \/ handle_food_message(MaxDay, TextsOf({ItemTofu}), MaxEntries)

SpecCatalog == Init /\ [][NextCatalog]_vars

\* every handler, over the days 0..MaxAge, with the job of 00:01 run every
\* day as the scheduler is set up to run it (cron, hour=0, minute=1).
\* The job of 00:01 has something left to do: the clock is past 00:01 and the
\* ledger has a key that the job deletes.  Once the job has run on a day, no
\* such key is left until 00:01 of the next day, since the handlers create
\* keys of the clock's date only; and a run that finds no such key changes
\* nothing in the ledger.  So "the job has run since 00:01 of today" is the
\* same, for the ledger, as "nothing is left to do".
ResetDue ==
    /\ now.tod >= 1
    /\ \E k \in DOMAIN daily_data : BeforeCutoff(k, now)

\* a handler that starts before 00:01 and ends on the next day would keep the
\* job of 00:01 waiting for the whole day
HeldUp == now.tod = 0 /\ now'.day > now.day

\* the job runs before anything else once it has something to do
NextDaily ==
    \/ midnight_reset
    \/ /\ ~ResetDue
       /\ \/ Tick(MaxAge)
          \/ status(MaxAge)
          \/ history
          \/ undo(MaxAge)
          \/ add_food(MaxAge, RetentionArgs, MaxKept)
          \/ handle_food_message(MaxAge, RetentionTexts, MaxKept)
          \/ send_reminder(MaxAge)
       /\ ~HeldUp

SpecDaily == Init /\ [][NextDaily]_vars

\* ------------------------------------------------- parser specification
\* the texts on which parse_food_entry is applied: items in the prefix form
\* (quantity, unit, connector, food name) and in the suffix form (food name,
\* quantity, unit), and lists of segments
LAIT == <<"l", "a", "i", "t">>
SORBET == <<"s", "o", "r", "b", "e", "t">>
BONJOUR == <<"b", "o", "n", "j", "o", "u", "r">>

\* a quantity as it is written, and its value in tenths
Quantity(chars, tenths) == [chars |-> chars, tenths |-> tenths]
Quantities ==
    {Quantity(<<"2">>, 20), Quantity(<<"1", ".", "5">>, 15),
     Quantity(<<"2", "4">>, 240), Quantity(<<"1", "6", "0">>, 1600)}
Blanks == {<< >>, <<" ">>}
Connectors == {<< >>, <<"d", "e", " ">>, <<"d", "'">>}
FoodNames == {RIZ, OEUFS, LAIT}
UnitSet == {UnitAlternatives[i] : i \in 1..Len(UnitAlternatives)}

\* a text and the parts it is made of
TextInput(form, text, quantity, unit, connector, name, segments) ==
    [form |-> form, text |-> text, quantity |-> quantity, unit |-> unit,
     connector |-> connector, name |-> name, segments |-> segments]

PrefixTexts ==
    {TextInput("prefix", q.chars \o b \o u.chars \o <<" ">> \o c \o n,
               q, u.name, c, n, << >>) :
        q \in Quantities, b \in Blanks, u \in UnitSet, c \in Connectors,
        n \in FoodNames}

SuffixTexts ==
    {TextInput("suffix", n \o <<" ">> \o q.chars \o b \o u.chars,
               q, u.name, << >>, n, << >>) :
        q \in Quantities, b \in Blanks, u \in UnitSet, n \in FoodNames}

\* a segment, and the food names and grams (in tenths) of the declarations
\* it stands for
Segment(text, decls) == [text |-> text, decls |-> decls]
SegRiz == Segment(<<"1", "6", "0", "g", " ">> \o RIZ, <<[food |-> RIZ, grams |-> 1600]>>)
SegOeufs == Segment(<<"2", " ">> \o OEUFS, <<[food |-> OEUFS, grams |-> 1200]>>)
SegRizSuffix == Segment(RIZ \o <<" ", "2", "k", "g">>, <<[food |-> RIZ, grams |-> 20000]>>)
SegSorbet ==
    Segment(<<"1", "6", "0", "G", " ">> \o SORBET, <<[food |-> SORBET, grams |-> 1600]>>)
SegBonjour == Segment(BONJOUR, << >>)
SegBlank == Segment(<<" ">>, << >>)
Segments == {SegRiz, SegOeufs, SegRizSuffix, SegSorbet, SegBonjour, SegBlank}
Separators ==
    {<<",">>, <<",", " ">>, <<" ", "e", "t", " ">>, <<"\n">>, <<",", "\n", ",">>}

ListTexts ==
    {TextInput("list", s[1].text \o p \o s[2].text, Quantity(<< >>, 0), "",
               << >>, << >>, s) :
        s \in [1..2 -> Segments], p \in Separators}
    \cup
    {TextInput("list", s[1].text \o p \o s[2].text \o p \o s[3].text,
               Quantity(<< >>, 0), "", << >>, << >>, s) :
        s \in [1..3 -> {SegRiz, SegOeufs, SegBonjour}],
        p \in {<<",">>, <<" ", "e", "t", " ">>}}

ParserTexts == PrefixTexts \cup SuffixTexts \cup ListTexts

\* a text is about to be parsed
InitParser ==
    /\ daily_data = [k \in {} |-> EmptyDay]
    /\ FOODS_DATABASE = InitialFoods
    /\ now = [day |-> 0, tod |-> 0]
    /\ event \in {[Reply("text", "ok") EXCEPT !.input = t] : t \in ParserTexts}

\* parse_food_entry(text): the declarations are the detail of the event
ParseEntry ==
    /\ event.op = "text"
    /\ event' = [Event("parse", "ok", None, None, None,
                       ParseText(FOODS_DATABASE, event.input.text), None)
                     EXCEPT !.input = event.input]
    /\ UNCHANGED <<daily_data, FOODS_DATABASE, now>>

NextParser == ParseEntry

SpecParser == InitParser /\ [][NextParser]_vars

\* ------------------------------------------------------------------ claims
Front(s) == SubSeq(s, 1, Len(s) - 1)
Last(s) == s[Len(s)]

\* sum of the macros of a sequence of entries, added in order from zero
RECURSIVE SumMacros(_)
SumMacros(entries) ==
    IF entries = << >> THEN ZeroTotals
    ELSE AddMacros(SumMacros(Front(entries)), Last(entries).macros)

\* the day of key k has no entry (the key may be absent)
NoEntries(data, k) == k \notin DOMAIN data \/ data[k].entries = << >>

\* those of the declarations (or entries) decls that have macros, in order
RECURSIVE Recorded(_)
Recorded(decls) ==
    IF decls = << >> THEN << >>
    ELSE Recorded(Front(decls))
         \o (IF Last(decls).macros # None THEN <<Last(decls)>> ELSE << >>)

Appended(e) == e.op \in {"add", "food"} /\ e.result = "ok"
Undone(e) == e.op = "undo" /\ e.result = "ok"

\* C1: in every reachable state, for every date key of the ledger, each of
\* the four totals equals the sum of that macro over the entries of the day.
\* Violated: the totals are kept by float additions and subtractions, and
\* (t + m) - m is not always t.
C1_TotalsEqualSum ==
    \A k \in DOMAIN daily_data :
        daily_data[k].totals = SumMacros(daily_data[k].entries)

\* C2: an undo right after a single append on the same day restores the
\* entries and the four totals of the day to their values before the append.
\* Violated, as C1 is.
C2_UndoRestores ==
    [][(/\ Appended(event)
        /\ Len(Recorded(event.detail)) = 1
        /\ Undone(event')
        /\ event'.today = event.today)
       => daily_data'[event.today] = event.before]_vars

\* C3: an undo on a day that has entries removes exactly the last entry of
\* the day, reports it, subtracts its macros from the totals of the day and
\* leaves the earlier entries in place and in order; an undo reports an
\* entry whenever the day has one.
C3_UndoRemovesLast ==
    [][event'.op = "undo" =>
        LET today == event'.today
        IN  IF NoEntries(daily_data, today)
            THEN event'.result = "empty"
            ELSE /\ event'.result = "ok"
                 /\ event'.detail = Last(daily_data[today].entries)
                 /\ daily_data'[today].entries = Front(daily_data[today].entries)
                 /\ \A k \in KeySet :
                        daily_data'[today].totals[k] =
                            FSub(daily_data[today].totals[k],
                                 Last(daily_data[today].entries).macros[k])]_vars

\* an undo has removed the last of three entries, which a message of two
\* items appended after a quick add, and left the two others
C3_Witness ==
    /\ Undone(event)
    /\ Len(event.before.entries) = 3
    /\ event.before.entries[1].food # RIZ
    /\ event.before.entries[2].food = RIZ
    /\ event.detail = event.before.entries[3]
    /\ event.detail.food = RIZ
    /\ daily_data[event.today].entries = Front(event.before.entries)

\* C4: an undo on a day without entries is reported as empty and removes no
\* entry and changes no total of any day, and the totals of the current day
\* are all zero afterwards.  Violated in its last part: after two appends and
\* two undos the day has no entry and totals that are not zero (see C1).
C4_UndoEmptyIsNoOp ==
    [][(event'.op = "undo" /\ NoEntries(daily_data, event'.today)) =>
        /\ event'.result = "empty"
        /\ \A k \in DOMAIN daily_data :
               k \in DOMAIN daily_data' /\ daily_data'[k] = daily_data[k]
        /\ daily_data'[event'.today].entries = << >>
        /\ daily_data'[event'.today].totals = ZeroTotals]_vars

\* the totals after the macros of the declarations ds are added in order
RECURSIVE AddAll(_, _)
AddAll(totals, ds) ==
    IF ds = << >> THEN totals
    ELSE AddMacros(AddAll(totals, Front(ds)), Last(ds).macros)

\* C5: when a message yields declarations, exactly those with macros are
\* appended to the entries of the current day, in the order of the
\* declarations, and the totals grow by their macros alone; a declaration
\* without macros adds no entry and changes no total.
C5_ResolvedRecorded ==
    [][(event'.op = "food" /\ event'.result = "ok") =>
        LET today == event'.today
            old == IF today \in DOMAIN daily_data THEN daily_data[today]
                   ELSE [entries |-> << >>, totals |-> ZeroTotals]
            new == daily_data'[today]
            rec == Recorded(event'.detail)
        IN  /\ Len(new.entries) = Len(old.entries) + Len(rec)
            /\ SubSeq(new.entries, 1, Len(old.entries)) = old.entries
            /\ \A i \in 1..Len(rec) :
                   LET e == new.entries[Len(old.entries) + i]
                   IN  /\ e.food = rec[i].food
                       /\ e.quantity = rec[i].grams
                       /\ e.macros = rec[i].macros
            /\ new.totals = AddAll(old.totals, rec)]_vars

\* a message of a known and an unknown food has been recorded
C5_Witness ==
    /\ event.op = "food" /\ event.result = "ok"
    /\ \E i, j \in 1..Len(event.detail) :
           /\ event.detail[i].macros = None
           /\ event.detail[j].macros # None
           /\ i < j
    /\ Len(daily_data[event.today].entries) = Len(event.before.entries) + 1

\* C6: after the midnight reset run on day D the ledger holds no day older
\* than D - 3, and every day from D - 3 on that it held is still there with
\* the same entries and totals.
C6_ResetKeepsThreeDays ==
    [][event'.op = "reset" =>
        /\ DOMAIN daily_data' =
               {k \in DOMAIN daily_data : k >= event'.today - 3}
        /\ \A k \in DOMAIN daily_data' : daily_data'[k] = daily_data[k]]_vars

\* a reset has removed the days D - 5 and D - 4 and kept the day D - 3 and the
\* day D - 2 with its entry
C6_Witness ==
    /\ event.op = "reset"
    /\ {event.today - 5, event.today - 4} \subseteq event.detail
    /\ {event.today - 3, event.today - 2} \subseteq DOMAIN daily_data
    /\ daily_data[event.today - 2].entries # << >>

\* C7: no step other than the midnight reset removes a date key from the
\* ledger.
C7_OnlyResetRemovesDays ==
    [][event'.op # "reset" => DOMAIN daily_data \subseteq DOMAIN daily_data']_vars

\* a handler that reads the ledger has run on day D while the ledger still
\* holds the day D - 5
C7_Witness ==
    /\ event.op \in {"status", "history", "undo"}
    /\ event.today - 5 \in DOMAIN daily_data

\* C8: init_day on a key that has a record changes nothing, init_day on an
\* absent key adds one record without entries and with zero totals and leaves
\* the other records as they are, and a second init_day on the same key
\* changes nothing.
C8_InitDayIdempotent ==
    \A k \in 0..(MaxDay + 1) :
        LET once == init_day(daily_data, k)
        IN  /\ k \in DOMAIN daily_data => once = daily_data
            /\ DOMAIN once = DOMAIN daily_data \cup {k}
            /\ \A j \in DOMAIN daily_data : once[j] = daily_data[j]
            /\ k \notin DOMAIN daily_data =>
                   once[k] = [entries |-> << >>, totals |-> ZeroTotals]
            /\ init_day(once, k) = once

\* a handler has called init_day for a day that has entries, while another
\* day has no record
C8_Witness ==
    /\ event.op = "status"
    /\ daily_data[event.today].entries # << >>
    /\ \E k \in 0..(MaxDay + 1) : k \notin DOMAIN daily_data

\* C9: /status and a reminder on a day without a record report zero totals
\* and the goals as remaining values, and leave a record without entries and
\* with zero totals for that day.
C9_ReadCreatesEmptyDay ==
    [][(/\ event'.op \in {"status", "reminder"}
        /\ event'.result # "skipped"
        /\ event'.today \notin DOMAIN daily_data)
       => /\ event'.totals = ZeroTotals
          /\ event'.remaining = DAILY_GOALS
          /\ event'.today \in DOMAIN daily_data'
          /\ daily_data'[event'.today] =
                 [entries |-> << >>, totals |-> ZeroTotals]]_vars

\* a reminder has created the record of its day while another day has entries
C9_Witness ==
    /\ event.op = "reminder"
    /\ event.result = "sent"
    /\ event.detail.created
    /\ \E k \in DOMAIN daily_data : daily_data[k].entries # << >>

\* the texts of /add that fail its grammar
Malformed(args) ==
    \/ /\ args.kind = "pipe"
       /\ \/ Len(args.fields) + 1 # 5
          \/ \E i \in 1..Len(args.fields) : ~args.fields[i].numeric
    \/ /\ args.kind = "quick"
       /\ args.with_qty = None
       /\ args.no_qty = None

\* C10: an /add whose text fails the grammar is answered with an error and
\* leaves the ledger and the catalog as they are.
C10_MalformedAddChangesNothing ==
    [][(event'.op = "add" /\ Malformed(event'.input)) =>
        /\ event'.result \in {"format", "not numbers", "unrecognised"}
        /\ daily_data' = daily_data
        /\ FOODS_DATABASE' = FOODS_DATABASE]_vars

\* an /add with a field that is no number has been refused while the ledger
\* has entries and the catalog does not have the food
C10_Witness ==
    /\ event.op = "add"
    /\ event.result = "not numbers"
    /\ event.input.name \notin DOMAIN FOODS_DATABASE
    /\ \E k \in DOMAIN daily_data : daily_data[k].entries # << >>

\* C11: the handlers touch the ledger only between two suspension points (each
\* awaits nothing before its reply, so a step of the model is one handler), and
\* whenever another handler or job can run, that is after every step that
\* appends, undoes or prunes, the totals of every day equal the sum of the
\* macros of its entries.  Violated after an undo, as C1 is.
C11_AtomicLedgerOps ==
    [][event'.op \in {"food", "add", "undo", "reset"} =>
        \A k \in DOMAIN daily_data' :
            \A m \in KeySet :
                daily_data'[k].totals[m] = SumMacros(daily_data'[k].entries)[m]]_vars

\* an item in the prefix or the suffix form has been parsed
ItemParsed(e) == e.op = "parse" /\ e.input.form \in {"prefix", "suffix"}

\* the text with ',' in the place of every '.'
WithComma(text) ==
    [i \in 1..Len(text) |-> IF text[i] = "." THEN "," ELSE text[i]]

\* the food names and the grams of a sequence of declarations
FoodAndGrams(decls) ==
    [i \in 1..Len(decls) |-> [food |-> decls[i].food, grams |-> decls[i].grams]]

\* C12: an item whose quantity is written with ',' parses to the same
\* declarations as the item with '.', and "1.5l" of a food and "1,5l" of it
\* are both 1500 grams.  Violated: the text is split at every ',' before the
\* quantity is read, so "1,5l lait" is the segments "1" and "5l lait".
C12_DecimalCommaSameGrams ==
    (ItemParsed(event) /\ InSeq(".", event.input.quantity.chars)) =>
        LET comma == ParseText(FOODS_DATABASE, WithComma(event.input.text))
        IN  /\ comma = event.detail
            /\ (event.input.quantity.tenths = 15 /\ event.input.unit = "l") =>
                   /\ Len(comma) = 1
                   /\ comma[1].grams = 15000
                   /\ event.detail[1].grams = 15000

\* C13: an item whose quantity q has no unit gives one declaration, of q
\* times w grams when q <= 20 and a weight w of one unit is found for the
\* food name, and of q grams otherwise.  Violated: the pattern takes the
\* first letter of "lait" for the unit l.
C13_BareCountGrams ==
    (ItemParsed(event) /\ event.input.unit = "") =>
        LET q == event.input.quantity.tenths
            n == event.input.name
            w == IF StdLookup(n, 1) # None THEN StdLookup(n, 1)
                 ELSE IF get_food_info(FOODS_DATABASE, n) # None
                 THEN StdExact(n) ELSE None
        IN  /\ Len(event.detail) = 1
            /\ event.detail[1].grams =
                   IF q <= 200 /\ w # None THEN (q * w[1]) \div 10 ELSE q

\* the grams of one unit of the conversion table
GramsPerUnit(unit) ==
    IF unit \in {"kg", "l"} THEN 1000 ELSE IF unit = "cl" THEN 10 ELSE 1

\* C14: an item made of a quantity q, a unit u of the table, an optional
\* connector and a food name n, in the prefix or in the suffix form, gives
\* one declaration, of the food n and of q times the grams of u.  Violated in
\* the prefix form for gr, gramme and grammes: the pattern takes g for the
\* unit and the rest of the unit for the start of the food name.
C14_UnitConversion ==
    (ItemParsed(event) /\ event.input.unit # "") =>
        /\ Len(event.detail) = 1
        /\ event.detail[1].food = event.input.name
        /\ event.detail[1].grams =
               event.input.quantity.tenths * GramsPerUnit(event.input.unit)

\* the declarations the segments stand for, in the order of the segments
RECURSIVE ExpectedDecls(_)
ExpectedDecls(segs) ==
    IF segs = << >> THEN << >>
    ELSE Head(segs).decls \o ExpectedDecls(Tail(segs))

\* C15: the parser returns the declarations of the segments that match the
\* prefix or the suffix form, one for each, in the order of the segments, and
\* nothing for a segment that matches neither form or is blank.
C15_OneDeclarationPerSegment ==
    (event.op = "parse" /\ event.input.form = "list") =>
        FoodAndGrams(event.detail) = ExpectedDecls(event.input.segments)

\* a list of three segments, the second of which matches no form, has been
\* parsed to the declarations of the first and of the third
C15_Witness ==
    /\ event.op = "parse"
    /\ event.input.segments = <<SegOeufs, SegBonjour, SegRiz>>
    /\ Len(event.detail) = 2
    /\ event.detail[1].food = OEUFS
    /\ event.detail[2].food = RIZ

\* the declarations ds with the macros scaled from the catalog foods: the
\* macros of 100 g times grams / 100
ScaledFromCatalog(foods, ds) ==
    [i \in 1..Len(ds) |->
        [macros |-> [k \in KeySet |->
            FMul(foods[ds[i].food][CHOOSE j \in 1..4 : Keys[j] = k],
                 FDiv(ds[i].grams, 1000))]]]

\* C16: a declaration of g grams of a food that the catalog has with the
\* macros (k, p, f, c) of 100 g has the macros (k*g/100, p*g/100, f*g/100,
\* c*g/100), its entry has these macros, and the totals of the day after the
\* message are the totals before it raised by these amounts.
C16_MacrosScaledByGrams ==
    [][(event'.op = "food" /\ event'.result = "ok") =>
        LET today == event'.today
            old == IF today \in DOMAIN daily_data THEN daily_data[today]
                   ELSE [entries |-> << >>, totals |-> ZeroTotals]
            new == daily_data'[today]
            found == SelectSeq(event'.detail,
                               LAMBDA d : d.food \in DOMAIN FOODS_DATABASE)
        IN  /\ \A i \in 1..Len(found) :
                   /\ found[i].macros # None
                   /\ \A j \in 1..4 :
                          found[i].macros[Keys[j]] * 1000 =
                              FOODS_DATABASE[found[i].food][j] * found[i].grams
                   /\ new.entries[Len(old.entries) + i].macros = found[i].macros
            /\ new.totals =
                   AddAll(old.totals, ScaledFromCatalog(FOODS_DATABASE, found))]_vars

\* 200 g of rice, (130, 2.7, 0.3, 28) for 100 g, have been recorded with the
\* macros (260, 5.4, 0.6, 56) on a day that had no entry
C16_Witness ==
    /\ event.op = "food" /\ event.result = "ok"
    /\ event.before = [entries |-> << >>, totals |-> ZeroTotals]
    /\ Len(event.detail) = 1
    /\ event.detail[1].food = RIZ
    /\ event.detail[1].grams = 2000
    /\ FOODS_DATABASE[RIZ] = <<1300, 27, 3, 280>>
    /\ daily_data[event.today].totals =
           [kcal |-> 2600, proteines |-> 54, lipides |-> 6, glucides |-> 560]

\* the value a literal states, in tenths
Stated(l) == l.whole * 10 + (IF l.sep = "" THEN 0 ELSE l.frac)

\* C17: an /add whose text matches one of the two quick-add patterns appends
\* one entry to the current day, after the entries it had; the macros of the
\* entry are the four values of the text, its grams are those of the text or
\* 100 when the text has none, and the totals of the day are raised by the
\* four values; no other day changes.
C17_QuickAddAppendsOne ==
    [][(/\ event'.op = "add"
        /\ event'.input.kind = "quick"
        /\ ~Malformed(event'.input)) =>
        LET today == event'.today
            old == IF today \in DOMAIN daily_data THEN daily_data[today]
                   ELSE [entries |-> << >>, totals |-> ZeroTotals]
            new == daily_data'[today]
            m == IF event'.input.with_qty # None THEN event'.input.with_qty[1]
                 ELSE event'.input.no_qty[1]
            stated == [kcal |-> Stated(m.kcal), proteines |-> Stated(m.prot),
                       lipides |-> Stated(m.lip), glucides |-> Stated(m.gluc)]
        IN  /\ event'.result = "ok"
            /\ new.entries = old.entries \o <<Last(new.entries)>>
            /\ Last(new.entries).macros = stated
            /\ Last(new.entries).quantity =
                   IF event'.input.with_qty # None THEN Stated(m.grams) ELSE 1000
            /\ new.totals = AddMacros(old.totals, stated)
            /\ \A k \in DOMAIN daily_data \ {today} :
                   daily_data'[k] = daily_data[k]]_vars

\* "150kcal 10p 5l 8g" has been added as 100 g after "30g 149.7kcal 10p 5l 8g"
\* was added as 30 g
C17_Witness ==
    /\ event.op = "add" /\ event.result = "ok"
    /\ event.input = QuickNoQty
    /\ Len(daily_data[event.today].entries) = 2
    /\ daily_data[event.today].entries[1].quantity = 300
    /\ daily_data[event.today].entries[1].macros.kcal = 1497
    /\ daily_data[event.today].entries[2].quantity = 1000
    /\ daily_data[event.today].entries[2].macros.kcal = 1500

\* C18: the progress ratio shown for each macro of the totals of a reply is
\* min(100, 100 * total / goal) and lies between 0 and 100.  Violated: after
\* undos the totals of a day can be below zero (see C1), and so is the ratio.
C18_ProgressWithinBounds ==
    (event.op \in {"status", "reminder", "add", "food"} /\ event.totals # None) =>
        \A m \in KeySet :
            LET pct == create_progress_bar(event.totals[m], DAILY_GOALS[m]).pct
            IN  /\ DAILY_GOALS[m] > 0
                /\ pct = IF RoundQ(100 * 1000 * event.totals[m], DAILY_GOALS[m])
                              < 100 * 1000
                         THEN RoundQ(100 * 1000 * event.totals[m], DAILY_GOALS[m])
                         ELSE 100 * 1000
                /\ 0 <= pct
                /\ pct <= 100 * 1000

\* a well-formed "name|kcal|prot|lip|gluc" has been given to /add
PipeWellFormed(e) ==
    e.op = "add" /\ e.input.kind = "pipe" /\ ~Malformed(e.input)

\* C19, as the spec words it: a well-formed "name|kcal|prot|lip|gluc" given to
\* /add appends an entry with these macros to the current day and adds them to
\* its totals.  Violated: the text is saved in the catalog only.
C19_DatabaseAddFeedsLedger ==
    [][PipeWellFormed(event') =>
        LET today == get_today_key(now)
            old == IF today \in DOMAIN daily_data THEN daily_data[today]
                   ELSE [entries |-> << >>, totals |-> ZeroTotals]
            macros == [k \in KeySet |->
                          event'.input.fields[CHOOSE j \in 1..4 : Keys[j] = k].value]
        IN  /\ today \in DOMAIN daily_data'
            /\ Len(daily_data'[today].entries) = Len(old.entries) + 1
            /\ Last(daily_data'[today].entries).macros = macros
            /\ daily_data'[today].totals = AddMacros(old.totals, macros)]_vars

\* C19, amended: a well-formed "name|kcal|prot|lip|gluc" given to /add is
\* saved in the catalog, where the name then has the four values as its
\* macros of 100 g and the other foods are as before; it appends no entry and
\* changes no total of any day.
C19_DatabaseAddFeedsCatalog ==
    [][PipeWellFormed(event') =>
        LET name == event'.input.name
        IN  /\ event'.result = "saved"
            /\ DOMAIN FOODS_DATABASE' = DOMAIN FOODS_DATABASE \cup {name}
            /\ FOODS_DATABASE'[name] =
                   <<event'.input.fields[1].value, event'.input.fields[2].value,
                     event'.input.fields[3].value, event'.input.fields[4].value>>
            /\ \A n \in DOMAIN FOODS_DATABASE \ {name} :
                   FOODS_DATABASE'[n] = FOODS_DATABASE[n]
            /\ daily_data' = daily_data]_vars

\* "tofu|120|12|7|2" has been saved while a day of the ledger has entries
C19_Witness ==
    /\ event.op = "add" /\ event.result = "saved"
    /\ event.input = PipeSaved
    /\ FOODS_DATABASE[TOFU] = <<1200, 120, 70, 20>>
    /\ \E k \in DOMAIN daily_data : daily_data[k].entries # << >>

\* C20: the remaining values of the reply to a message that records, to a
\* quick add and to an undo are, for each macro, the goal minus the total of
\* the day that the handler changed, also when the date changes while the
\* handler runs, and the handler touches no other day.  Violated: the handler
\* picks its date key first and get_remaining() reads the clock again, so
\* after midnight it creates the record of the new day and reports the goals.
C20_RemainingOfModifiedDay ==
    [][(Appended(event') \/ Undone(event')) =>
        LET today == event'.today
        IN  /\ \A m \in KeySet :
                   event'.remaining[m] =
                       FSub(DAILY_GOALS[m], daily_data'[today].totals[m])
            /\ DOMAIN daily_data' = DOMAIN daily_data \cup {today}
            /\ \A k \in DOMAIN daily_data \ {today} :
                   daily_data'[k] = daily_data[k]]_vars

\* C21: in every step, the entries of a day that is in the ledger change in
\* one of three ways only: entries are added after the ones the day has (by
\* an append on that day), the last entry is removed (by an undo on that
\* day), or the day is deleted with all its entries (by the job of 00:01).
\* The entries that stay keep their food, grams, macros, time and order, and
\* an append or an undo leaves the record of every other day as it was.
C21_EntryLogAppendOnly ==
    [][/\ \A k \in DOMAIN daily_data :
            LET old == daily_data[k].entries
            IN  IF k \notin DOMAIN daily_data'
                THEN event'.op = "reset"
                ELSE LET new == daily_data'[k].entries
                     IN  \/ new = old
                         \/ /\ Len(new) > Len(old)
                            /\ SubSeq(new, 1, Len(old)) = old
                            /\ Appended(event')
                            /\ k = event'.today
                         \/ /\ old # << >>
                            /\ new = Front(old)
                            /\ Undone(event')
                            /\ k = event'.today
       /\ (Appended(event') \/ Undone(event')) =>
              \A k \in DOMAIN daily_data \ {event'.today} :
                  /\ k \in DOMAIN daily_data'
                  /\ daily_data'[k] = daily_data[k]]_vars

\* an undo has taken the second of two different entries of a day, the first
\* is still there, and the ledger has the record of another day
C21_Witness ==
    /\ Undone(event)
    /\ Len(event.before.entries) = 2
    /\ event.before.entries[1] # event.before.entries[2]
    /\ daily_data[event.today].entries = <<event.before.entries[1]>>
    /\ \E k \in DOMAIN daily_data : k # event.today

\* C22: in every reachable state, also after foods have been added to the
\* catalog with /add, the four per-100g values of every food of the catalog,
\* the four macros of every entry of the ledger and the four totals of every
\* day are not negative.
\* Violated: /add name|kcal|prot|lip|gluc converts its fields with float(),
\* which accepts a sign, and checks nothing else, so a negative value gets
\* into the catalog, and from there into the entries and the totals of a day.
C22_NonNegative ==
    /\ \A n \in DOMAIN FOODS_DATABASE :
           \A i \in 1..4 : FOODS_DATABASE[n][i] >= 0
    /\ \A d \in DOMAIN daily_data :
           /\ \A i \in 1..Len(daily_data[d].entries) :
                  \A k \in KeySet : daily_data[d].entries[i].macros[k] >= 0
           /\ \A k \in KeySet : daily_data[d].totals[k] >= 0

\* C23: with the job of 00:01 run every day, in every reachable state the
\* ledger has the records of at most 5 dates and no record of a date later
\* than the date of the clock, whatever reads, appends, quick adds and undos
\* happen, the reads that create the empty record of a day included.
C23_AtMostFiveDates ==
    /\ Cardinality(DOMAIN daily_data) <= 5
    /\ \A k \in DOMAIN daily_data : k <= now.day

\* just after midnight and before the job of 00:01, a read has created the
\* record of the new day, and the ledger has the five dates up to that day
C23_Witness ==
    /\ event.op \in {"status", "reminder"}
    /\ event.result \in {"ok", "sent"}
    /\ event.detail.created
    /\ now.tod = 0
    /\ DOMAIN daily_data = (now.day - 4)..now.day
    /\ now.day >= 5

====
